---- MODULE Spec2Model ----
(***************************************************************************)
(* Model of matematiikkavalmennusbot: the poll cycle of rss.py             *)
(* (get_unseen_entries and the state-file operations it calls, each under  *)
(* FileLock(state_file + ".lock")) and the delivery loop of main.py        *)
(* (fetch_feed_callback).                                                  *)
(*                                                                         *)
(* The state file is modelled by its text, a sequence of lines, written by *)
(* dumps and read back by loads (tomlkit.dump / tomlkit.load).  An entry   *)
(* is modelled by its id.  A token (etag, modified) is a positive number, *)
(* None is 0.                                                              *)
(***************************************************************************)
EXTENDS Integers, Sequences, FiniteSets, TLC

MaxFeed == 2
MaxCycles == 2
MaxMax == 1
MaxCrashes == 1
MaxTitle == 1
MaxValue == 2
MaxBlocks == 1

Procs == {1, 2}
Ids == 1..MaxFeed
FeedMaxes == 0..MaxMax
None == 0
NoProc == 0
Validators == {"etag", "modified"}

VARIABLES
    feed,        \* the remote feed: sequence of entry ids in document order
    server,      \* the validators the feed server sends: etag, modified
    feed_max,    \* bot_data["feed_max"]
    exists,      \* whether state.toml exists
    file,        \* the text of state.toml, a sequence of lines
    lock,        \* holder of state.toml.lock, NoProc when free
    pc,          \* position of each process in fetch_feed_callback
    cycles,      \* poll cycles started by each process, MaxCycles in all
    crashes,     \* process crashes so far
    loc,         \* local variables of each process
    last_result, \* how the last poll cycle of each process ended
    polls,       \* history: the completed get_unseen_entries of each process and
                 \* the ids then handed to send_message
    fetched_ids, \* history: ids present in some fetch result
    delivered,   \* history: ids handed to send_message, per process
    ever_seen,   \* history: ids a get_seen_entry_ids got or could have got so far
    appended,    \* history: ids written by some save_entry_ids
    written,     \* history: last truthy etag / modified written
    snapshot,    \* history: text before / after the last write started
    entry,       \* the feed entry given to format_entry
    message      \* the text format_entry returned, <<>> before the call

vars == <<feed, server, feed_max, exists, file, lock, pc, cycles, crashes, loc,
          last_result, polls, fetched_ids, delivered, ever_seen, appended,
          written, snapshot, entry, message>>

fmt == <<entry, message>>
env == <<feed, server, feed_max, fmt>>
hist0 == <<polls, fetched_ids, delivered, appended, written, snapshot>>
hist == <<hist0, ever_seen>>

Range(s) == {s[i] : i \in 1..Len(s)}

Prefixes(s) == {SubSeq(s, 1, n) : n \in 0..Len(s)}

----
(* The text of the state file.                                             *)

SeenOpen == <<"entries_seen = [", 0>>
SeenClose == <<"]", 0>>
FeedHeader == <<"[feed]", 0>>
IdLine(i) == <<"id", i>>
KeyLine(kv) == kv

EmptyDoc == [has_seen |-> FALSE, entries_seen |-> <<>>,
             has_feed |-> FALSE, feed |-> <<>>]

Keys(f) == {f[i][1] : i \in 1..Len(f)}

\* tomlkit.dumps: top-level keys come before tables; a table keeps the
\* insertion order of its keys; the array is multiline, one id per line.
dumps(doc) ==
    (IF doc.has_seen
        THEN <<SeenOpen>> \o [i \in 1..Len(doc.entries_seen) |->
                                 IdLine(doc.entries_seen[i])] \o <<SeenClose>>
        ELSE <<>>)
    \o
    (IF doc.has_feed
        THEN <<FeedHeader>> \o [i \in 1..Len(doc.feed) |-> KeyLine(doc.feed[i])]
        ELSE <<>>)

\* index of the line closing the array, 0 when the array is not closed
ArrayEnd(lines) ==
    IF \E i \in 1..Len(lines) : lines[i] = SeenClose
        THEN CHOOSE i \in 1..Len(lines) :
                 /\ lines[i] = SeenClose
                 /\ \A j \in 1..(i - 1) : lines[j] # SeenClose
        ELSE 0

StartsArray(lines) == lines # <<>> /\ lines[1] = SeenOpen

AfterArray(lines) ==
    IF StartsArray(lines)
        THEN SubSeq(lines, ArrayEnd(lines) + 1, Len(lines))
        ELSE lines

ArrayOK(lines) ==
    StartsArray(lines) =>
        /\ ArrayEnd(lines) > 0
        /\ \A i \in 2..(ArrayEnd(lines) - 1) : lines[i][1] = "id"

TableOK(rest) ==
    rest # <<>> =>
        /\ rest[1] = FeedHeader
        /\ \A i \in 2..Len(rest) : rest[i][1] \in {"etag", "modified"}
        /\ \A i, j \in 2..Len(rest) : rest[i][1] = rest[j][1] => i = j

\* tomlkit.load raises ParseError on a text that is not a document
Parseable(lines) == ArrayOK(lines) /\ TableOK(AfterArray(lines))

\* tomlkit.load of a parseable text
loads(lines) ==
    LET rest == AfterArray(lines)
    IN  [has_seen |-> StartsArray(lines),
         entries_seen |-> IF StartsArray(lines)
                             THEN [i \in 1..(ArrayEnd(lines) - 2) |-> lines[i + 1][2]]
                             ELSE <<>>,
         has_feed |-> rest # <<>>,
         feed |-> IF rest # <<>> THEN Tail(rest) ELSE <<>>]

----
(* The updates of the document and the values read from it.                *)

Truthy(t) == t # None

Index(f, k) == CHOOSE i \in 1..Len(f) : f[i][1] = k

\* feed[k] = v on a tomlkit table: replace in place, or add at the end
SetKey(f, k, v) ==
    IF k \in Keys(f) THEN [f EXCEPT ![Index(f, k)] = <<k, v>>]
                     ELSE Append(f, <<k, v>>)

GetKey(f, k) == IF k \in Keys(f) THEN f[Index(f, k)][2] ELSE None

\* mutant: lines 101 and 103, the tests of etag and modified, are left out
WithHeaders_Unconditional(doc, e, m) ==
    LET f0 == IF doc.has_feed THEN doc.feed ELSE <<>>
    IN  [doc EXCEPT !.has_feed = TRUE,
                    !.feed = SetKey(SetKey(f0, "etag", e), "modified", m)]

\* mutant: the tokens are put in a new document, not in the one loaded
WithHeaders_NewDocument(doc, e, m) ==
    LET f0 == <<>>
        f1 == IF Truthy(e) THEN SetKey(f0, "etag", e) ELSE f0
        f2 == IF Truthy(m) THEN SetKey(f1, "modified", m) ELSE f1
    IN  [has_seen |-> FALSE, entries_seen |-> <<>>, has_feed |-> TRUE, feed |-> f2]

\* save_feed_headers, lines 96-104: the document that is dumped
WithHeaders(doc, e, m) ==
    LET f0 == IF doc.has_feed THEN doc.feed ELSE <<>>
        f1 == IF Truthy(e) THEN SetKey(f0, "etag", e) ELSE f0
        f2 == IF Truthy(m) THEN SetKey(f1, "modified", m) ELSE f1
    IN  [doc EXCEPT !.has_feed = TRUE, !.feed = f2]

\* mutant: the array is made anew on every call, lines 130-132 without the test
WithEntryIds_NewArray(doc, ids) ==
    [doc EXCEPT !.has_seen = TRUE, !.entries_seen = ids]

\* mutant: line 135, seen.extend(entry_ids), is left out
WithEntryIds_NotExtended(doc, ids) ==
    [doc EXCEPT !.has_seen = TRUE,
                !.entries_seen = IF doc.has_seen THEN @ ELSE <<>>]

\* save_entry_ids, lines 129-135: the document that is dumped
WithEntryIds(doc, ids) ==
    [doc EXCEPT !.has_seen = TRUE,
                !.entries_seen = (IF doc.has_seen THEN @ ELSE <<>>) \o ids]

\* get_feed_headers, lines 113-119: KeyError on a missing "feed" is caught
FeedHeaders(doc) ==
    IF doc.has_feed THEN <<GetKey(doc.feed, "etag"), GetKey(doc.feed, "modified")>>
                    ELSE <<None, None>>

\* mutant: the array is looked up under a key the document never has
SeenIds_Default(doc) == {}

\* get_seen_entry_ids, line 144
SeenIds(doc) == IF doc.has_seen THEN Range(doc.entries_seen) ELSE {}

RECURSIVE Unseen_Reversed(_, _)
\* mutant: the unseen entries are collected newest first
Unseen_Reversed(entries, seen) ==
    IF entries = <<>> THEN <<>>
    ELSE IF entries[1] \in seen THEN Unseen_Reversed(Tail(entries), seen)
    ELSE Unseen_Reversed(Tail(entries), seen) \o <<entries[1]>>

\* mutant: the filter of line 21 is left out
Unseen_NoFilter(entries, seen) == entries

\* get_unseen_entries, line 21
RECURSIVE Unseen(_, _)
Unseen(entries, seen) ==
    IF entries = <<>> THEN <<>>
    ELSE IF entries[1] \in seen THEN Unseen(Tail(entries), seen)
    ELSE <<entries[1]>> \o Unseen(Tail(entries), seen)

\* fetch_feed_callback, line 46: seq[-n:] for n >= 0 (seq[-0:] is seq[0:])
LastN(seq, n) ==
    IF n = 0 \/ n >= Len(seq) THEN seq
    ELSE SubSeq(seq, Len(seq) - n + 1, Len(seq))

\* the validator the server gives the current version of the feed
Token(f) == Len(f) + 1

\* feedparser.parse, line 85: a full answer, a 304 answer when a token sent
\* matches (no entries), or a failure (no entries, no tokens); sv is the set of
\* validators the server sends with an answer
FetchResults(f, sv, e, m) ==
    LET te == IF "etag" \in sv THEN Token(f) ELSE None
        tm == IF "modified" \in sv THEN Token(f) ELSE None
    IN  {[entries |-> f, etag |-> te, modified |-> tm],
         [entries |-> <<>>, etag |-> None, modified |-> None]}
        \cup
        (IF e = Token(f) \/ m = Token(f)
            THEN {[entries |-> <<>>, etag |-> te, modified |-> tm]}
            ELSE {})

\* what a reader of the state file gets now
StoredDoc == IF exists /\ Parseable(file) THEN loads(file) ELSE EmptyDoc
StoredSeen == SeenIds(StoredDoc)
StoredHeaders == FeedHeaders(StoredDoc)

----
(* format_entry.  A text is a sequence of tokens: "x" an ordinary character, *)
(* "shy" the soft hyphen U+00AD, "&shy;" its named reference, "nl" a line   *)
(* break, "sp" a space, and tags.  In a title or a text/plain value a tag   *)
(* token stands for its characters.                                         *)

TagName == [t \in {"<b>", "</b>"} |-> "b"] @@
           [t \in {"<script>", "</script>"} |-> "script"] @@
           [t \in {"<li>", "</li>"} |-> "li"]

TagTokens == DOMAIN TagName

TitleTokens == {"x", "shy", "<b>"}
ValueTokens == {"x", "shy", "&shy;", "nl"} \cup TagTokens
BlockTypes == {"text/html", "application/xhtml+xml", "text/plain", "image/png"}

SeqsUpTo(S, n) == UNION {[1..k -> S] : k \in 0..n}

\* the content block of the sanitization example
ScriptExample == <<"<script>", "x", "</script>", "<b>", "x", "</b>">>

Values == SeqsUpTo(ValueTokens, MaxValue) \cup {ScriptExample}

Entries == [title : SeqsUpTo(TitleTokens, MaxTitle),
            content : SeqsUpTo([type : BlockTypes, value : Values], MaxBlocks)]

NoEntry == [title |-> <<>>, content |-> <<>>]

\* html.escape on one token: < > & become references
Escape(t) ==
    CASE t = "<b>" -> "&lt;b&gt;"
      [] t = "</b>" -> "&lt;/b&gt;"
      [] t = "<script>" -> "&lt;script&gt;"
      [] t = "</script>" -> "&lt;/script&gt;"
      [] t = "<li>" -> "&lt;li&gt;"
      [] t = "</li>" -> "&lt;/li&gt;"
      [] t = "&shy;" -> "&amp;shy;"
      [] OTHER -> t

EscapeAll(text) == [i \in 1..Len(text) |-> Escape(text[i])]

\* rss.py lines 33-49
allowed_tags == {"b", "strong", "i", "em", "u", "ins", "s", "strike", "del",
                 "tg-spoiler", "a", "tg-emoji", "code", "pre", "li"}

RECURSIVE Remove(_, _)
\* str.replace(t, "") for the tokens t of drop
Remove(text, drop) ==
    IF text = <<>> THEN <<>>
    ELSE IF text[1] \in drop THEN Remove(Tail(text), drop)
    ELSE <<text[1]>> \o Remove(Tail(text), drop)

\* mutant: strip=False, a tag that is not allowed is escaped
clean_Escaping(value) ==
    [i \in 1..Len(value) |->
        IF value[i] \in TagTokens /\ TagName[value[i]] \notin allowed_tags
            THEN Escape(value[i]) ELSE value[i]]

\* bleach.clean(value, tags=allowed_tags, attributes=allowed_attrs, strip=True):
\* a tag that is not allowed is removed, its text is kept
clean(value) ==
    Remove(value, {t \in TagTokens : TagName[t] \notin allowed_tags})

\* line 62: "nl" becomes a space, "<li>" a line break and a bullet, "</li>" goes
Rewrite(text) ==
    LET r == [i \in 1..Len(text) |->
                 CASE text[i] = "nl" -> "sp"
                   [] text[i] = "<li>" -> "nl-bullet"
                   [] OTHER -> text[i]]
    IN  Remove(r, {"</li>"})

\* lines 58-66: what one content block adds to content
FormatBlock(block) ==
    IF block.type \in {"text/html", "application/xhtml+xml"}
        THEN Rewrite(clean(block.value)) \o <<"nl">>
    ELSE IF block.type = "text/plain"
        THEN EscapeAll(block.value) \o <<"nl">>
    ELSE <<>>

RECURSIVE Content(_)
\* lines 56-66
Content(blocks) ==
    IF blocks = <<>> THEN <<>>
    ELSE FormatBlock(blocks[1]) \o Content(Tail(blocks))

\* line 71: the header up to the line break
Header(title) == <<"<a href>", "<b>">> \o title \o <<"</b>", "</a>", "nl">>

\* lines 31-73
format_entry(e) ==
    Header(EscapeAll(e.title)) \o Remove(Content(e.content), {"shy", "&shy;"})

----
(* Locals of a process and the state after construction.                   *)

InitLoc == [data |-> EmptyDoc, err |-> "", etag |-> None, modified |-> None,
            latest_feed |-> <<>>, new_etag |-> None, new_modified |-> None,
            seen_ids |-> {}, new |-> <<>>, entries |-> <<>>]

\* before the first poll cycle: no state.toml, nothing fetched or sent
InitStore ==
    /\ feed = <<>>
    /\ exists = FALSE
    /\ file = <<>>
    /\ lock = NoProc
    /\ pc = [p \in Procs |-> "idle"]
    /\ cycles = [p \in Procs |-> 0]
    /\ crashes = 0
    /\ loc = [p \in Procs |-> InitLoc]
    /\ last_result = [p \in Procs |-> "none"]
    /\ polls = [p \in Procs |-> <<>>]
    /\ fetched_ids = {}
    /\ delivered = [p \in Procs |-> <<>>]
    /\ ever_seen = {}
    /\ appended = {}
    /\ written = [etag |-> None, modified |-> None]
    /\ snapshot = [old |-> <<>>, new |-> <<>>]

Init ==
    /\ InitStore
    /\ server \in SUBSET Validators
    /\ feed_max \in FeedMaxes
    /\ entry = NoEntry
    /\ message = <<>>

----
(* Steps shared by the store operations.                                   *)

Goto(p, l) == pc' = [pc EXCEPT ![p] = l]

\* mutant: the lock does not exclude other processes
CanAcquire_Always(holder) == TRUE

\* with FileLock(file_path + ".lock"): exit, normal or by an exception; from
\* now on a get_seen_entry_ids can get what the file holds
Unlock ==
    /\ lock' = NoProc
    /\ ever_seen' = ever_seen \cup StoredSeen

\* FileLock.acquire blocks until no process holds the lock
CanAcquire(holder) == holder = NoProc

\* mutant: the block is entered without taking the lock
Acquire_NoLock(p, at, to) ==
    /\ pc[p] = at
    /\ Goto(p, to)
    /\ UNCHANGED <<env, exists, file, lock, cycles, crashes, loc, last_result, hist>>

\* with FileLock(file_path + ".lock"): entry
Acquire(p, at, to) ==
    /\ pc[p] = at
    /\ CanAcquire(lock)
    /\ lock' = p
    /\ Goto(p, to)
    /\ UNCHANGED <<env, exists, file, cycles, crashes, loc, last_result, hist>>

\* open(file_path, "r" or "r+t") and tomlkit.load: the exception raised
LoadError == IF ~exists THEN "FileNotFoundError"
             ELSE IF ~Parseable(file) THEN "ParseError"
             ELSE ""

\* os.ftruncate(f.fileno(), 0); os.lseek(f.fileno(), 0, os.SEEK_SET)
Truncate(p, at, to) ==
    /\ pc[p] = at
    /\ file' = <<>>
    /\ Goto(p, to)
    /\ UNCHANGED <<env, exists, lock, cycles, crashes, loc, last_result, hist>>

\* an exception leaves get_unseen_entries and fetch_feed_callback: the poll
\* cycle is over, the job queue logs the error
Raise(p) ==
    /\ Goto(p, "idle")
    /\ loc' = [loc EXCEPT ![p] = InitLoc]
    /\ last_result' = [last_result EXCEPT ![p] = "error"]

----
(* fetch_feed_callback and get_unseen_entries, step by step.               *)

\* the job queue runs fetch_feed_callback (run_repeating, interval=600)
StartCycle(p) ==
    /\ pc[p] = "idle"
    /\ cycles[1] + cycles[2] < MaxCycles
    /\ cycles' = [cycles EXCEPT ![p] = @ + 1]
    /\ last_result' = [last_result EXCEPT ![p] = "running"]
    /\ Goto(p, "csf_lock")
    /\ UNCHANGED <<env, exists, file, lock, crashes, loc, hist>>

csf_Acquire(p) == Acquire(p, "csf_lock", "csf_open")

\* mutant: the file is not created
csf_Open_NoCreate(p) ==
    /\ pc[p] = "csf_open"
    /\ Goto(p, "csf_exit")
    /\ UNCHANGED <<env, exists, file, lock, cycles, crashes, loc, last_result, hist>>

\* mutant: the file is opened with "w", which truncates it
csf_Open_Truncating(p) ==
    /\ pc[p] = "csf_open"
    /\ exists' = TRUE
    /\ file' = <<>>
    /\ Goto(p, "csf_exit")
    /\ UNCHANGED <<env, lock, cycles, crashes, loc, last_result, hist>>

\* open(file_path, "a"); f.write("")
csf_Open(p) ==
    /\ pc[p] = "csf_open"
    /\ exists' = TRUE
    /\ Goto(p, "csf_exit")
    /\ UNCHANGED <<env, file, lock, cycles, crashes, loc, last_result, hist>>

csf_Release(p) ==
    /\ pc[p] = "csf_exit"
    /\ Unlock
    /\ Goto(p, "gfh_lock")
    /\ UNCHANGED <<env, exists, file, cycles, crashes, loc, last_result, hist0>>

gfh_Acquire(p) == Acquire(p, "gfh_lock", "gfh_load")

gfh_Load(p) ==
    /\ pc[p] = "gfh_load"
    /\ loc' = [loc EXCEPT ![p].err = LoadError,
                          ![p].data = IF LoadError = "" THEN loads(file) ELSE EmptyDoc]
    /\ Goto(p, "gfh_exit")
    /\ UNCHANGED <<env, exists, file, lock, cycles, crashes, last_result, hist>>

\* mutant: ParseError is caught like KeyError and the tokens are reset
gfh_Release_CatchesParseError(p) ==
    /\ pc[p] = "gfh_exit"
    /\ Unlock
    /\ loc' = [loc EXCEPT ![p].etag = FeedHeaders(loc[p].data)[1],
                          ![p].modified = FeedHeaders(loc[p].data)[2],
                          ![p].data = EmptyDoc,
                          ![p].err = ""]
    /\ Goto(p, "fetch")
    /\ UNCHANGED <<env, exists, file, cycles, crashes, last_result, hist0>>

\* mutant: the lock is kept until save_feed_headers, across the fetch
gfh_Release_KeepsLock(p) ==
    /\ pc[p] = "gfh_exit"
    /\ IF loc[p].err = "ParseError"
          THEN /\ Unlock
               /\ Raise(p)
          ELSE /\ UNCHANGED <<lock, ever_seen>>
               /\ loc' = [loc EXCEPT ![p].etag = FeedHeaders(loc[p].data)[1],
                                     ![p].modified = FeedHeaders(loc[p].data)[2],
                                     ![p].data = EmptyDoc,
                                     ![p].err = ""]
               /\ Goto(p, "fetch")
               /\ UNCHANGED last_result
    /\ UNCHANGED <<env, exists, file, cycles, crashes, hist0>>

\* mutant: the lock is released by a call after the block's body, which an
\* exception skips
gfh_Release_NoFinally(p) ==
    /\ pc[p] = "gfh_exit"
    /\ IF loc[p].err = "ParseError"
          THEN /\ Raise(p)
               /\ UNCHANGED <<lock, ever_seen>>
          ELSE /\ Unlock
               /\ loc' = [loc EXCEPT ![p].etag = FeedHeaders(loc[p].data)[1],
                                     ![p].modified = FeedHeaders(loc[p].data)[2],
                                     ![p].data = EmptyDoc,
                                     ![p].err = ""]
               /\ Goto(p, "fetch")
               /\ UNCHANGED last_result
    /\ UNCHANGED <<env, exists, file, cycles, crashes, hist0>>

\* leaving the with block, then lines 113-119; ParseError is not caught
gfh_Release(p) ==
    /\ pc[p] = "gfh_exit"
    /\ Unlock
    /\ IF loc[p].err = "ParseError"
          THEN Raise(p)
          ELSE /\ loc' = [loc EXCEPT ![p].etag = FeedHeaders(loc[p].data)[1],
                                     ![p].modified = FeedHeaders(loc[p].data)[2],
                                     ![p].data = EmptyDoc,
                                     ![p].err = ""]
               /\ Goto(p, "fetch")
               /\ UNCHANGED last_result
    /\ UNCHANGED <<env, exists, file, cycles, crashes, hist0>>

\* fetch_feed(feed_url, etag, modified)
Fetch(p) ==
    /\ pc[p] = "fetch"
    /\ \E r \in FetchResults(feed, server, loc[p].etag, loc[p].modified) :
          /\ loc' = [loc EXCEPT ![p].latest_feed = r.entries,
                                ![p].new_etag = r.etag,
                                ![p].new_modified = r.modified]
          /\ fetched_ids' = fetched_ids \cup Range(r.entries)
    /\ Goto(p, "sfh_lock")
    /\ UNCHANGED <<env, exists, file, lock, cycles, crashes, last_result,
                   polls, delivered, ever_seen, appended, written, snapshot>>

sfh_Acquire(p) == Acquire(p, "sfh_lock", "sfh_load")

sfh_Load(p) ==
    /\ pc[p] = "sfh_load"
    /\ IF LoadError = ""
          THEN /\ loc' = [loc EXCEPT ![p].data = loads(file)]
               /\ snapshot' = [old |-> file,
                               new |-> dumps(WithHeaders(loads(file), loc[p].new_etag,
                                                         loc[p].new_modified))]
               /\ Goto(p, "sfh_truncate")
          ELSE /\ loc' = [loc EXCEPT ![p].err = LoadError]
               /\ Goto(p, "sfh_exit")
               /\ UNCHANGED snapshot
    /\ UNCHANGED <<env, exists, file, lock, cycles, crashes, last_result,
                   polls, fetched_ids, delivered, ever_seen, appended, written>>

sfh_Truncate(p) == Truncate(p, "sfh_truncate", "sfh_dump")

\* lines 96-105
sfh_Dump(p) ==
    /\ pc[p] = "sfh_dump"
    /\ file' = dumps(WithHeaders(loc[p].data, loc[p].new_etag, loc[p].new_modified))
    /\ written' = [etag |-> IF Truthy(loc[p].new_etag)
                               THEN loc[p].new_etag ELSE written.etag,
                   modified |-> IF Truthy(loc[p].new_modified)
                                   THEN loc[p].new_modified ELSE written.modified]
    /\ Goto(p, "sfh_exit")
    /\ UNCHANGED <<env, exists, lock, cycles, crashes, loc, last_result,
                   polls, fetched_ids, delivered, ever_seen, appended, snapshot>>

sfh_Release(p) ==
    /\ pc[p] = "sfh_exit"
    /\ Unlock
    /\ IF loc[p].err # ""
          THEN Raise(p)
          ELSE /\ loc' = [loc EXCEPT ![p].data = EmptyDoc]
               /\ Goto(p, "gsi_lock")
               /\ UNCHANGED last_result
    /\ UNCHANGED <<env, exists, file, cycles, crashes, hist0>>

gsi_Acquire(p) == Acquire(p, "gsi_lock", "gsi_load")

gsi_Load(p) ==
    /\ pc[p] = "gsi_load"
    /\ loc' = [loc EXCEPT ![p].err = LoadError,
                          ![p].data = IF LoadError = "" THEN loads(file) ELSE EmptyDoc]
    /\ Goto(p, "gsi_exit")
    /\ UNCHANGED <<env, exists, file, lock, cycles, crashes, last_result, hist>>

\* leaving the with block, then line 144 and lines 20-21
gsi_Release(p) ==
    /\ pc[p] = "gsi_exit"
    /\ Unlock
    /\ IF loc[p].err = "ParseError"
          THEN Raise(p)
          ELSE /\ loc' = [loc EXCEPT ![p].seen_ids = SeenIds(loc[p].data),
                                     ![p].new = Unseen(loc[p].latest_feed,
                                                       SeenIds(loc[p].data)),
                                     ![p].data = EmptyDoc,
                                     ![p].err = ""]
               /\ Goto(p, "sei_lock")
               /\ UNCHANGED last_result
    /\ UNCHANGED <<env, exists, file, cycles, crashes, polls, fetched_ids,
                   delivered, appended, written, snapshot>>

sei_Acquire(p) == Acquire(p, "sei_lock", "sei_load")

sei_Load(p) ==
    /\ pc[p] = "sei_load"
    /\ IF LoadError = ""
          THEN /\ loc' = [loc EXCEPT ![p].data = loads(file)]
               /\ snapshot' = [old |-> file,
                               new |-> dumps(WithEntryIds(loads(file), loc[p].new))]
               /\ Goto(p, "sei_truncate")
          ELSE /\ loc' = [loc EXCEPT ![p].err = LoadError]
               /\ Goto(p, "sei_exit")
               /\ UNCHANGED snapshot
    /\ UNCHANGED <<env, exists, file, lock, cycles, crashes, last_result,
                   polls, fetched_ids, delivered, ever_seen, appended, written>>

sei_Truncate(p) == Truncate(p, "sei_truncate", "sei_dump")

\* lines 129-136
sei_Dump(p) ==
    /\ pc[p] = "sei_dump"
    /\ file' = dumps(WithEntryIds(loc[p].data, loc[p].new))
    /\ appended' = appended \cup Range(loc[p].new)
    /\ Goto(p, "sei_exit")
    /\ UNCHANGED <<env, exists, lock, cycles, crashes, loc, last_result,
                   polls, fetched_ids, delivered, ever_seen, written, snapshot>>

\* leaving the with block, rss.py line 23, then main.py line 46
sei_Release(p) ==
    /\ pc[p] = "sei_exit"
    /\ Unlock
    /\ IF loc[p].err # ""
          THEN /\ Raise(p)
               /\ UNCHANGED polls
          ELSE /\ loc' = [loc EXCEPT ![p] = [InitLoc EXCEPT
                                 !.entries = LastN(loc[p].new, feed_max)]]
               /\ polls' = [polls EXCEPT ![p] = Append(@,
                                 [etag |-> loc[p].etag,
                                  modified |-> loc[p].modified,
                                  latest_feed |-> loc[p].latest_feed,
                                  new_etag |-> loc[p].new_etag,
                                  new_modified |-> loc[p].new_modified,
                                  seen_ids |-> loc[p].seen_ids,
                                  new |-> loc[p].new,
                                  headers_after |-> StoredHeaders,
                                  seen_after |-> StoredSeen,
                                  sent |-> <<>>])]
               /\ Goto(p, "send")
               /\ UNCHANGED last_result
    /\ UNCHANGED <<env, exists, file, cycles, crashes, fetched_ids,
                   delivered, appended, written, snapshot>>

\* main.py lines 47-49: format_entry, then send_message succeeds
Deliver(p) ==
    /\ pc[p] = "send"
    /\ loc[p].entries # <<>>
    /\ delivered' = [delivered EXCEPT ![p] = Append(@, Head(loc[p].entries))]
    /\ polls' = [polls EXCEPT ![p][Len(polls[p])].sent =
                                 Append(@, Head(loc[p].entries))]
    /\ loc' = [loc EXCEPT ![p].entries = Tail(@)]
    /\ UNCHANGED <<env, exists, file, lock, pc, cycles, crashes, last_result,
                   fetched_ids, ever_seen, appended, written, snapshot>>

\* main.py line 49: send_message raises
DeliverFail(p) ==
    /\ pc[p] = "send"
    /\ loc[p].entries # <<>>
    /\ Raise(p)
    /\ UNCHANGED <<env, exists, file, lock, cycles, crashes, hist>>

\* the for loop of main.py line 47 is exhausted
EndCycle(p) ==
    /\ pc[p] = "send"
    /\ loc[p].entries = <<>>
    /\ Goto(p, "idle")
    /\ last_result' = [last_result EXCEPT ![p] = "ok"]
    /\ UNCHANGED <<env, exists, file, lock, cycles, crashes, loc, hist>>

\* the publisher appends an entry with a fresh id to the feed
FeedAppend ==
    /\ Len(feed) < MaxFeed
    /\ feed' = Append(feed, Len(feed) + 1)
    /\ UNCHANGED <<server, feed_max, fmt, exists, file, lock, pc, cycles, crashes, loc,
                   last_result, hist>>

Step(p) ==
    \/ StartCycle(p)
    \/ csf_Acquire(p) \/ csf_Open(p) \/ csf_Release(p)
    \/ gfh_Acquire(p) \/ gfh_Load(p) \/ gfh_Release(p)
    \/ Fetch(p)
    \/ sfh_Acquire(p) \/ sfh_Load(p) \/ sfh_Truncate(p) \/ sfh_Dump(p) \/ sfh_Release(p)
    \/ gsi_Acquire(p) \/ gsi_Load(p) \/ gsi_Release(p)
    \/ sei_Acquire(p) \/ sei_Load(p) \/ sei_Truncate(p) \/ sei_Dump(p) \/ sei_Release(p)
    \/ Deliver(p) \/ DeliverFail(p) \/ EndCycle(p)

\* the feed server is reconfigured to send other validators
Reconfigure ==
    /\ \E sv \in SUBSET Validators : sv # server /\ server' = sv
    /\ UNCHANGED <<feed, feed_max, fmt, exists, file, lock, pc, cycles, crashes,
                   loc, last_result, hist>>

\* the text left by a write that stops before tomlkit.dump has completed
TornTexts(text) == Prefixes(text) \ {text}

\* the process dies (kill, power loss): the kernel drops its flock, a dump in
\* progress leaves a prefix of its text, and the bot is started again; the
\* poll cycle cut short does not count among the MaxCycles
Crash(p) ==
    /\ crashes < MaxCrashes
    /\ pc[p] # "idle"
    /\ crashes' = crashes + 1
    /\ lock' = IF lock = p THEN NoProc ELSE lock
    /\ IF pc[p] = "sfh_dump"
          THEN file' \in TornTexts(dumps(WithHeaders(loc[p].data, loc[p].new_etag,
                                                     loc[p].new_modified)))
          ELSE IF pc[p] = "sei_dump"
          THEN file' \in TornTexts(dumps(WithEntryIds(loc[p].data, loc[p].new)))
          ELSE file' = file
    /\ Goto(p, "idle")
    /\ loc' = [loc EXCEPT ![p] = InitLoc]
    /\ last_result' = [last_result EXCEPT ![p] = "crashed"]
    /\ cycles' = [cycles EXCEPT ![p] = @ - 1]
    /\ UNCHANGED <<env, exists, hist0>>
    /\ ever_seen' = IF lock = p THEN ever_seen \cup StoredSeen' ELSE ever_seen

\* one entry is formatted (main.py line 48)
InitFormat ==
    /\ InitStore
    /\ server = {}
    /\ feed_max = 1
    /\ entry \in Entries
    /\ message = <<>>

Format ==
    /\ message = <<>>
    /\ message' = format_entry(entry)
    /\ UNCHANGED <<feed, server, feed_max, entry, exists, file, lock, pc, cycles,
                   crashes, loc, last_result, hist>>

NextFormat == Format

SpecFormat == InitFormat /\ [][NextFormat]_vars

\* two bot processes share state.toml
Next == FeedAppend \/ \E p \in Procs : Step(p)

Spec == Init /\ [][Next]_vars

\* one bot process
NextSingle == FeedAppend \/ Reconfigure \/ Step(1)

SpecSingle == Init /\ [][NextSingle]_vars

\* one bot process that may crash and is started again
NextCrash == FeedAppend \/ Step(1) \/ Crash(1)

SpecCrash == Init /\ [][NextCrash]_vars

----
(* Properties.                                                             *)

\* the ids returned as new by the completed poll cycles of p
Returned(p) == UNION {Range(polls[p][k].new) : k \in 1..Len(polls[p])}

\* positions at which the next step of a process reads or writes state.toml
AccessPcs == {"csf_open", "gfh_load", "sfh_load", "sfh_truncate", "sfh_dump",
              "gsi_load", "sei_load", "sei_truncate", "sei_dump"}

\* positions inside a with FileLock block
HoldPcs == AccessPcs \cup {"csf_exit", "gfh_exit", "sfh_exit", "gsi_exit", "sei_exit"}

\* C1: with one process and a feed that grows by appending distinct ids, no
\* id is returned as new by two poll cycles, and between poll cycles the ids
\* returned so far are exactly the ids that were in some fetch result.
C1_NoDuplicateDelivery ==
    /\ \A j, k \in 1..Len(polls[1]) :
          j # k => Range(polls[1][j].new) \cap Range(polls[1][k].new) = {}
    /\ \A k \in 1..Len(polls[1]) :
          Cardinality(Range(polls[1][k].new)) = Len(polls[1][k].new)
    /\ pc[1] \in {"idle", "send"} => Returned(1) = fetched_ids

C1_Witness ==
    /\ Len(polls[1]) = 2
    /\ polls[1][1].new # <<>>
    /\ polls[1][2].new # <<>>
    /\ polls[1][2].seen_ids # {}

\* C2: two processes polling the same feed on the same state file never both
\* return the same entry id as new.
C2_NeverReturnedByBoth == Returned(1) \cap Returned(2) = {}

\* C3: whenever no store operation is in progress, the stored seen-id set
\* holds every id appended by either process and the stored etag and modified
\* are the last ones written: no update is lost.
C3_NoLostUpdate ==
    lock = NoProc =>
        /\ appended \subseteq StoredSeen
        /\ StoredHeaders = <<written.etag, written.modified>>

C3_Witness ==
    /\ lock = NoProc
    /\ Len(polls[1]) = 1 /\ polls[1][1].new # <<>>
    /\ Len(polls[2]) = 1 /\ polls[2][1].new # <<>>
    /\ polls[1][1].new # polls[2][1].new
    /\ Truthy(written.etag)

\* C4: whenever a reader can take the lock, the text of the state file is the
\* text before the last write started or the text that write was to produce.
C4_OldOrNewSnapshot == lock = NoProc => file \in {snapshot.old, snapshot.new}

\* C5: over completed operations the seen-id set only grows: an id that a
\* get_seen_entry_ids got, or could have got, once is in the set that every
\* later get_seen_entry_ids gets.
C5_SeenAppendOnly ==
    /\ lock = NoProc => ever_seen \subseteq StoredSeen
    /\ \A p \in Procs :
          (pc[p] = "gsi_exit" /\ loc[p].err = "") =>
              ever_seen \subseteq SeenIds(loc[p].data)

C5_Witness ==
    \E p \in Procs :
        /\ pc[p] = "gsi_exit"
        /\ ever_seen # {}
        /\ Len(polls[p]) = 1
        /\ loc[p].latest_feed = <<>>

\* C6: a process reads or writes the state file only while it holds the
\* lock, so two processes are never at the file at once.
C6_AccessUnderLock ==
    /\ \A p \in Procs : pc[p] \in AccessPcs => lock = p
    /\ \A p, q \in Procs : (pc[p] \in AccessPcs /\ pc[q] \in AccessPcs) => p = q

C6_Witness ==
    /\ pc[1] = "sei_dump"
    /\ pc[2] = "sfh_lock"
    /\ lock = 1

\* C7: a process outside the with blocks does not hold the lock; after a
\* poll cycle that failed on an unparseable state file the lock is free.
C7_LockReleased ==
    /\ \A p \in Procs : pc[p] \notin HoldPcs => lock # p
    /\ last_result[1] = "error" /\ pc[1] = "idle" => lock = NoProc

C7_Witness ==
    /\ last_result[1] = "error"
    /\ pc[1] = "idle"
    /\ exists /\ ~Parseable(file)
    /\ lock = NoProc

\* C8: the ids of the entries that fetch_feed_callback is about to hand or
\* has handed to send_message are in the stored seen-id set.
C8_SeenBeforeSend ==
    lock = NoProc =>
        \A p \in Procs :
            /\ Range(delivered[p]) \subseteq StoredSeen
            /\ pc[p] = "send" => Range(loc[p].entries) \subseteq StoredSeen

C8_Witness ==
    /\ pc[1] = "send"
    /\ loc[1].entries # <<>>
    /\ delivered[1] = <<>>
    /\ lock = NoProc

\* C9: when a poll cycle fetches the same entries as the poll cycle before
\* it, it returns nothing and leaves the seen-id set as it was.
C9_IdempotentRepoll ==
    \A k \in 2..Len(polls[1]) :
        polls[1][k].latest_feed = polls[1][k - 1].latest_feed =>
            /\ polls[1][k].new = <<>>
            /\ polls[1][k].seen_after = polls[1][k - 1].seen_after

C9_Witness ==
    /\ Len(polls[1]) = 2
    /\ polls[1][1].latest_feed # <<>>
    /\ polls[1][2].latest_feed = polls[1][1].latest_feed

\* C10: save_feed_headers leaves the stored seen ids as they were loaded,
\* save_entry_ids leaves the stored etag and modified as they were loaded,
\* and after tokens then ids are written both read back as written.
C10_PartialUpdateIsolation ==
    /\ (pc[1] = "sfh_exit" /\ loc[1].err = "") =>
          /\ Parseable(file)
          /\ loads(file).entries_seen = loc[1].data.entries_seen
          /\ Truthy(loc[1].new_etag) => StoredHeaders[1] = loc[1].new_etag
          /\ Truthy(loc[1].new_modified) => StoredHeaders[2] = loc[1].new_modified
    /\ (pc[1] = "sei_exit" /\ loc[1].err = "") =>
          /\ Parseable(file)
          /\ StoredHeaders = FeedHeaders(loc[1].data)
          /\ Truthy(loc[1].new_etag) => StoredHeaders[1] = loc[1].new_etag
          /\ Truthy(loc[1].new_modified) => StoredHeaders[2] = loc[1].new_modified
          /\ StoredSeen = SeenIds(loc[1].data) \cup Range(loc[1].new)

C10_Witness ==
    /\ pc[1] = "sei_exit"
    /\ loc[1].new # <<>>
    /\ SeenIds(loc[1].data) # {}
    /\ Truthy(loc[1].new_etag)
    /\ loc[1].new_etag # loc[1].etag
    /\ ~Truthy(loc[1].new_modified)
    /\ Truthy(StoredHeaders[2])

\* positions of a poll cycle up to the end of get_feed_headers
EarlyPcs == {"idle", "csf_lock", "csf_open", "csf_exit", "gfh_lock", "gfh_load",
             "gfh_exit"}

\* C11: while the state file is unparseable no step changes its text, the
\* poll cycle does not get past get_feed_headers, and the step that leaves
\* get_feed_headers ends the cycle with an error.
C11_CorruptStoreAborts ==
    [][(exists /\ ~Parseable(file)) =>
          /\ file' = file
          /\ pc'[1] \in EarlyPcs
          /\ (pc[1] = "gfh_exit" /\ pc'[1] # "gfh_exit" /\ crashes' = crashes) =>
                (pc'[1] = "idle" /\ last_result'[1] = "error")]_vars

C11_Witness ==
    /\ crashes = 1
    /\ exists /\ ~Parseable(file)
    /\ file # <<>>
    /\ last_result[1] = "error"

\* the fetch of poll cycle r gave no entries and no tokens
FetchFailed(r) ==
    r.latest_feed = <<>> /\ ~Truthy(r.new_etag) /\ ~Truthy(r.new_modified)

\* C12: a poll cycle whose fetch gives no entries and no tokens returns no
\* entry and leaves the stored etag, modified and seen ids as it read them;
\* the next poll cycle fetches with the same tokens.
C12_FetchFailureKeepsState ==
    \A k \in 1..Len(polls[1]) :
        FetchFailed(polls[1][k]) =>
            /\ polls[1][k].new = <<>>
            /\ polls[1][k].headers_after = <<polls[1][k].etag, polls[1][k].modified>>
            /\ polls[1][k].seen_after = polls[1][k].seen_ids
            /\ k < Len(polls[1]) =>
                  /\ polls[1][k + 1].etag = polls[1][k].etag
                  /\ polls[1][k + 1].modified = polls[1][k].modified
                  /\ polls[1][k + 1].seen_ids = polls[1][k].seen_ids

C12_Witness ==
    /\ Len(polls[1]) = 2
    /\ FetchFailed(polls[1][2])
    /\ Truthy(polls[1][2].etag)
    /\ Truthy(polls[1][2].modified)
    /\ polls[1][2].seen_ids # {}

\* C13: the first poll cycle, started without a state file, creates the file
\* and completes; it fetches with no tokens, returns all fetched entries and
\* leaves exactly their ids as the seen ids.
C13_MissingStoreBootstrap ==
    /\ pc[1] \notin {"idle", "csf_lock", "csf_open"} => exists
    /\ pc[1] \in {"idle", "send"} => Len(polls[1]) = cycles[1]
    /\ Len(polls[1]) >= 1 =>
          /\ polls[1][1].etag = None
          /\ polls[1][1].modified = None
          /\ polls[1][1].seen_ids = {}
          /\ polls[1][1].new = polls[1][1].latest_feed
          /\ polls[1][1].seen_after = Range(polls[1][1].latest_feed)

C13_Witness ==
    /\ Len(polls[1]) = 1
    /\ Len(polls[1][1].new) = 2
    /\ pc[1] = "idle"

\* C14: from the end of get_feed_headers until save_feed_headers takes the
\* lock, so during the fetch, the process does not hold the lock.
C14_NoLockDuringFetch ==
    \A p \in Procs : pc[p] \in {"fetch", "sfh_lock"} => lock # p

C14_Witness ==
    /\ pc[1] = "fetch"
    /\ lock = 2
    /\ pc[2] = "sei_dump"

\* positions in entries of the entries whose id is not in seen
Kept(entries, seen) == {i \in 1..Len(entries) : entries[i] \notin seen}

\* C15: the entries a poll cycle returns are the fetched entries whose id is
\* not in the seen ids read in that cycle, each once, in the order fetched.
C15_UnseenInFeedOrder ==
    \A p \in Procs : \A k \in 1..Len(polls[p]) :
        LET r == polls[p][k]
            kept == Kept(r.latest_feed, r.seen_ids)
        IN  /\ Len(r.new) = Cardinality(kept)
            /\ \A n \in 1..Len(r.new) :
                  \E i \in kept : /\ Cardinality({j \in kept : j <= i}) = n
                                  /\ r.new[n] = r.latest_feed[i]

C15_Witness ==
    \E p \in Procs :
        /\ Len(polls[p]) = 1
        /\ Len(polls[p][1].latest_feed) = 2
        /\ polls[p][1].seen_ids = {1}
        /\ polls[p][1].new = <<2>>

\* C16: the text format_entry returns holds no soft hyphen.
C16_NoSoftHyphen == "shy" \notin Range(message)

\* the part of the message after the header line
Body == SubSeq(message, Len(entry.title) + 6, Len(message))

HtmlTypes == {"text/html", "application/xhtml+xml"}

Count(text, t) == Cardinality({i \in 1..Len(text) : text[i] = t})

RECURSIVE CountInHtml(_, _)
CountInHtml(blocks, t) ==
    IF blocks = <<>> THEN 0
    ELSE (IF blocks[1].type \in HtmlTypes THEN Count(blocks[1].value, t) ELSE 0)
         + CountInHtml(Tail(blocks), t)

\* C17: the formatted content holds no script tag; the tags of an HTML block
\* that are not allowed are removed, not escaped, and its b tags are kept; the
\* block <script>x</script><b>x</b> gives x<b>x</b>.
C17_SanitizationAllowList ==
    message # <<>> =>
        /\ \A i \in 1..Len(Body) : Body[i] \notin {"<script>", "</script>"}
        /\ (\A i \in 1..Len(entry.content) : entry.content[i].type \in HtmlTypes) =>
              \A i \in 1..Len(Body) :
                  Body[i] \notin {"&lt;script&gt;", "&lt;/script&gt;"}
        /\ Count(Body, "<b>") = CountInHtml(entry.content, "<b>")
        /\ Count(Body, "</b>") = CountInHtml(entry.content, "</b>")
        /\ (Len(entry.content) = 1 /\ entry.content[1].type \in HtmlTypes
               /\ entry.content[1].value = ScriptExample) =>
              Body = <<"x", "<b>", "x", "</b>", "nl">>

C17_Witness ==
    /\ message # <<>>
    /\ entry.content = <<[type |-> "text/html", value |-> ScriptExample]>>

\* the last token a fetch of the poll cycles 1..k returned set, None if none
LastEtag(k) ==
    IF \E j \in 1..k : Truthy(polls[1][j].new_etag)
        THEN polls[1][CHOOSE j \in 1..k :
                         /\ Truthy(polls[1][j].new_etag)
                         /\ \A i \in (j + 1)..k : ~Truthy(polls[1][i].new_etag)].new_etag
        ELSE None

LastModified(k) ==
    IF \E j \in 1..k : Truthy(polls[1][j].new_modified)
        THEN polls[1][CHOOSE j \in 1..k :
                         /\ Truthy(polls[1][j].new_modified)
                         /\ \A i \in (j + 1)..k : ~Truthy(polls[1][i].new_modified)].new_modified
        ELSE None

\* C18: every poll cycle fetches with the etag and the modified that the
\* fetches of the earlier cycles last returned set, and after the cycle the
\* stored tokens are the ones last returned set, this cycle included.
C18_TokensReplayed ==
    \A k \in 1..Len(polls[1]) :
        /\ polls[1][k].etag = LastEtag(k - 1)
        /\ polls[1][k].modified = LastModified(k - 1)
        /\ polls[1][k].headers_after = <<LastEtag(k), LastModified(k)>>

C18_Witness ==
    /\ Len(polls[1]) = 2
    /\ Truthy(polls[1][1].new_etag) /\ ~Truthy(polls[1][1].new_modified)
    /\ ~Truthy(polls[1][2].new_etag) /\ Truthy(polls[1][2].new_modified)
    /\ polls[1][2].headers_after = <<polls[1][1].new_etag, polls[1][2].new_modified>>

\* C19: in a poll cycle at most feed_max entries are handed to send_message,
\* and they are among the last feed_max entries returned.
C19_AtMostMaxDelivered ==
    \A p \in Procs : \A k \in 1..Len(polls[p]) :
        /\ Len(polls[p][k].sent) <= feed_max
        /\ \A i \in 1..Len(polls[p][k].sent) :
              \E j \in 1..Len(polls[p][k].new) :
                  /\ j > Len(polls[p][k].new) - feed_max
                  /\ polls[p][k].new[j] = polls[p][k].sent[i]

\* C20: an entry a poll cycle returned and did not hand to send_message is
\* handed to send_message in no later poll cycle.
C20_NeverDeliveredLater ==
    \A j, k \in 1..Len(polls[1]) :
        j < k => (Range(polls[1][j].new) \ Range(polls[1][j].sent))
                     \cap Range(polls[1][k].sent) = {}

====
